---- MODULE Spec2Model ----
(***************************************************************************)
(* Model of azurerm/internal/services/compute/virtual_machine.go: the      *)
(* Virtual Machine ID parser and validator, the network-interface ID       *)
(* expand/flatten pair, the OS disk expand/flatten pair and the            *)
(* connection-information setter.                                          *)
(*                                                                         *)
(* Every function of the file is a one-shot synchronous call.  A behaviour *)
(* of the model is one call (fn, arg) that returns (ret), optionally       *)
(* followed by a flatten of the payload an expand has just produced.       *)
(*                                                                         *)
(* Go values:                                                              *)
(*   pointer            <<>> is nil, <<v>> points to v                     *)
(*   interface{}        a tagged record [t |-> type, v |-> value]; the nil *)
(*                      interface is [t |-> "nil", v |-> ""]                *)
(*   map[string]...     a function whose domain is the set of keys present *)
(*   panic              ret.panic = TRUE (the call aborts, nothing is      *)
(*                      returned)                                          *)
(*   resource ID string the sequence of its maximal "/"-free pieces:       *)
(*                      "/a//b" is <<"", "a", "", "b">>, "" is <<"">>      *)
(*   any other string   a TLA+ string                                      *)
(***************************************************************************)
EXTENDS Integers, Sequences, FiniteSets, TLC

VARIABLES pc, fn, arg, ret, orig

vars == <<pc, fn, arg, ret, orig>>

\* ------------------------------------------------------------------ bounds

\* longest resource ID string, in "/"-separated pieces
MaxPieces == 7
\* longest network interface list
MaxNics == 3

\* ------------------------------------------------------------ Go values

Nil == <<>>
Ptr(v) == <<v>>

StringV(s) == [t |-> "string", v |-> s]
IntV(n) == [t |-> "int", v |-> n]
BoolV(b) == [t |-> "bool", v |-> b]
ListV(l) == [t |-> "list", v |-> l]
MapV(m) == [t |-> "map", v |-> m]
NilV == [t |-> "nil", v |-> ""]

\* raw[key] on a map[string]interface{}: the nil interface for a missing key
Index(m, key) == IF key \in DOMAIN m THEN m[key] ELSE NilV

\* v.(T) without the comma-ok form panics unless v holds a T
Asserts(v, type) == v.t = type

Returned(v) == [panic |-> FALSE, val |-> v]
Panicked == [panic |-> TRUE, val |-> Nil]
Pending == [panic |-> FALSE, val |-> Nil]

\* int32(n) and int(n).  Every integer of the model lies in the int32 range
\* -2^31 .. 2^31-1, where both conversions keep the value.
Int32(n) == n
GoInt(n) == n

\* fmt.Errorf: the message, the key or input string it quotes, the error wrapped
Errorf(msg, key, input, cause) ==
  [msg |-> msg, key |-> key, input |-> input, cause |-> cause]

\* --------------------------------------------- resource ID strings (pieces)

Piece == {"", "resourceGroups", "virtualMachines", "vm1"}

IDStrings == UNION {[1..n -> Piece] : n \in 1..MaxPieces}

\* strings.TrimPrefix(s, "/") and strings.TrimSuffix(s, "/") on pieces
TrimPrefix(s) == IF Len(s) >= 2 /\ s[1] = "" THEN Tail(s) ELSE s
TrimSuffix(s) == IF Len(s) >= 2 /\ s[Len(s)] = "" THEN SubSeq(s, 1, Len(s) - 1) ELSE s

\* the path's components once the enclosing slashes are dropped: key, value, key, value, ...
Components(s) == TrimSuffix(TrimPrefix(s))

KeyIndexes(c) == {i \in 1..Len(c) : i % 2 = 1}

\* the key/value map of the components; a later occurrence of a key overwrites an earlier one
ComponentMap(c) ==
  [k \in {c[i] : i \in KeyIndexes(c)} |->
     LET last == CHOOSE i \in KeyIndexes(c) :
                   /\ c[i] = k
                   /\ \A j \in KeyIndexes(c) : c[j] = k => j <= i
     IN c[last + 1]]

Without(m, key) == [k \in DOMAIN m \ {key} |-> m[k]]

(***************************************************************************)
(* The shared helper azure.ParseAzureResourceID and the ResourceID methods *)
(* PopSegment and ValidateNoEmptySegments are owned outside this file.     *)
(* What is stated of them: the path is "/"-delimited and splits into named *)
(* segments (key/value pairs), it yields a resource group, PopSegment      *)
(* fails when the segment is missing, ValidateNoEmptySegments fails on an  *)
(* empty segment.  A malformed path and an empty segment are causes that   *)
(* reach the caller wrapped, and ParseVirtualMachineID wraps only the      *)
(* error of ParseAzureResourceID (line 21): that helper reports them.      *)
(* Nothing states that every other path is accepted, so each helper takes  *)
(* `strict`: TRUE when the input breaks a further rule of the helper.      *)
(***************************************************************************)
ParseAzureResourceID(input, strict) ==
  LET c == Components(input)
  IN IF ~(Len(input) >= 2 /\ input[1] = "")
       THEN [id |-> Nil, err |-> Ptr(Errorf("Cannot parse Azure ID", "", input, Nil))]
     ELSE IF Len(c) % 2 # 0
       THEN [id |-> Nil, err |-> Ptr(Errorf("The number of path segments is not divisible by 2", "", input, Nil))]
     ELSE IF \E i \in 1..Len(c) : c[i] = ""
       THEN [id |-> Nil, err |-> Ptr(Errorf("Key/Value cannot be empty strings", "", input, Nil))]
     ELSE IF "resourceGroups" \notin DOMAIN ComponentMap(c)
       THEN [id |-> Nil, err |-> Ptr(Errorf("No resource group name found", "", input, Nil))]
     ELSE IF strict
       THEN [id |-> Nil, err |-> Ptr(Errorf("Cannot parse Azure ID", "", input, Nil))]
     ELSE [id |-> Ptr([ResourceGroup |-> ComponentMap(c)["resourceGroups"],
                       Path |-> Without(ComponentMap(c), "resourceGroups")]),
           err |-> Nil]

\* id.PopSegment(name): the value, the error, and id with the segment deleted
PopSegment(id, name) ==
  IF name \in DOMAIN id.Path
    THEN [val |-> id.Path[name], err |-> Nil, id |-> [id EXCEPT !.Path = Without(id.Path, name)]]
    ELSE [val |-> "", err |-> Ptr(Errorf("ID was missing the element", name, Nil, Nil)), id |-> id]

\* id.ValidateNoEmptySegments(sourceId)
ValidateNoEmptySegments(id, sourceId, strict) ==
  IF \E k \in DOMAIN id.Path : k = "" \/ id.Path[k] = ""
    THEN Ptr(Errorf("ID contained an empty segment", "", sourceId, Nil))
  ELSE IF strict
    THEN Ptr(Errorf("ID contained an invalid segment", "", sourceId, Nil))
  ELSE Nil

Helpers == {"ParseAzureResourceID", "ValidateNoEmptySegments"}

\* --------------------------------------------------- ParseVirtualMachineID

\* ParseVirtualMachineID returning when PopSegment fails is left out: the name stays ""
ParseVirtualMachineID_IgnoresPopError(input, strict) ==
  LET parsed == ParseAzureResourceID(input, "ParseAzureResourceID" \in strict)
  IN IF parsed.err # Nil
       THEN [id |-> Nil,
             err |-> Ptr(Errorf("[ERROR] Unable to parse Virtual Machine ID", "", input, parsed.err))]
     ELSE
       LET id == parsed.id[1]
           popped == PopSegment(id, "virtualMachines")
           invalid == ValidateNoEmptySegments(popped.id, input,
                                              "ValidateNoEmptySegments" \in strict)
       IN IF invalid # Nil
            THEN [id |-> Nil, err |-> invalid]
          ELSE [id |-> Ptr([ResourceGroup |-> id.ResourceGroup, Name |-> popped.val]),
                err |-> Nil]

\* ParseVirtualMachineID returning nil, nil when the helper rejects the path
ParseVirtualMachineID_DropsParseError(input, strict) ==
  LET parsed == ParseAzureResourceID(input, "ParseAzureResourceID" \in strict)
  IN IF parsed.err # Nil
       THEN [id |-> Nil, err |-> Nil]
     ELSE
       LET id == parsed.id[1]
           popped == PopSegment(id, "virtualMachines")
       IN IF popped.err # Nil
            THEN [id |-> Nil, err |-> popped.err]
          ELSE
            LET invalid == ValidateNoEmptySegments(popped.id, input,
                                                   "ValidateNoEmptySegments" \in strict)
            IN IF invalid # Nil
                 THEN [id |-> Nil, err |-> invalid]
               ELSE [id |-> Ptr([ResourceGroup |-> id.ResourceGroup, Name |-> popped.val]),
                     err |-> Nil]

\* ParseVirtualMachineID building the ID without its ResourceGroup
ParseVirtualMachineID_NoResourceGroup(input, strict) ==
  LET parsed == ParseAzureResourceID(input, "ParseAzureResourceID" \in strict)
  IN IF parsed.err # Nil
       THEN [id |-> Nil,
             err |-> Ptr(Errorf("[ERROR] Unable to parse Virtual Machine ID", "", input, parsed.err))]
     ELSE
       LET id == parsed.id[1]
           popped == PopSegment(id, "virtualMachines")
       IN IF popped.err # Nil
            THEN [id |-> Nil, err |-> popped.err]
          ELSE
            LET invalid == ValidateNoEmptySegments(popped.id, input,
                                                   "ValidateNoEmptySegments" \in strict)
            IN IF invalid # Nil
                 THEN [id |-> Nil, err |-> invalid]
               ELSE [id |-> Ptr([ResourceGroup |-> "", Name |-> popped.val]),
                     err |-> Nil]

\* virtual_machine.go:18-37.  strict: the helpers whose further rules the input breaks
ParseVirtualMachineID(input, strict) ==
  LET parsed == ParseAzureResourceID(input, "ParseAzureResourceID" \in strict)
  IN IF parsed.err # Nil
       THEN [id |-> Nil,
             err |-> Ptr(Errorf("[ERROR] Unable to parse Virtual Machine ID", "", input, parsed.err))]
     ELSE
       LET id == parsed.id[1]
           popped == PopSegment(id, "virtualMachines")
       IN IF popped.err # Nil
            THEN [id |-> Nil, err |-> popped.err]
          ELSE
            LET invalid == ValidateNoEmptySegments(popped.id, input,
                                                   "ValidateNoEmptySegments" \in strict)
            IN IF invalid # Nil
                 THEN [id |-> Nil, err |-> invalid]
               ELSE [id |-> Ptr([ResourceGroup |-> id.ResourceGroup, Name |-> popped.val]),
                     err |-> Nil]

\* -------------------------------------------------- ValidateVirtualMachineID

Keys == {"virtual_machine_id", "source_vm_id"}

\* ValidateVirtualMachineID returning without appending when the parse fails
ValidateVirtualMachineID_SwallowsParseError(i, k, strict) ==
  IF ~Asserts(i, "string")
    THEN [warnings |-> <<>>,
          errors |-> <<Errorf("expected type to be string", k, Nil, Nil)>>]
  ELSE [warnings |-> <<>>, errors |-> <<>>]

\* virtual_machine.go:39-52
ValidateVirtualMachineID(i, k, strict) ==
  IF ~Asserts(i, "string")
    THEN [warnings |-> <<>>,
          errors |-> <<Errorf("expected type to be string", k, Nil, Nil)>>]
  ELSE
    LET r == ParseVirtualMachineID(i.v, strict)
    IN IF r.err # Nil
         THEN [warnings |-> <<>>,
               errors |-> <<Errorf("Can not parse as a resource id", k, Nil, r.err)>>]
       ELSE [warnings |-> <<>>, errors |-> <<>>]

\* ------------------------------------ network interface IDs expand/flatten

\* virtual_machine.go:54-64: v.(string) panics on an element that is no string
expandVirtualMachineNetworkInterfaceIDs(input) ==
  IF \E i \in 1..Len(input) : ~Asserts(input[i], "string")
    THEN Panicked
    ELSE Returned([i \in 1..Len(input) |-> [ID |-> Ptr(input[i].v)]])

\* virtual_machine.go:66-82: a nil list is empty, a reference without ID is skipped
flattenVirtualMachineNetworkInterfaceIDs(input) ==
  IF input = Nil
    THEN <<>>
    ELSE LET withID == SelectSeq(input[1], LAMBDA ref : ref.ID # Nil)
         IN [i \in 1..Len(withID) |-> StringV(withID[i].ID[1])]

\* ------------------------------------------------------ OS disk block schema

\* virtual_machine.go:95-99, 107-112, 127-129: the enums of the schema
CachingTypes == {"None", "ReadOnly", "ReadWrite"}
StorageAccountTypes == {"Premium_LRS", "Standard_LRS", "StandardSSD_LRS"}
DiffDiskOptions == {"Local"}
\* virtual_machine.go:146: validation.IntBetween(0, 1023)
MinDiskSizeGB == 0
MaxDiskSizeGB == 1023

OSDiskKeys == {"caching", "storage_account_type", "diff_disk_settings",
               "disk_encryption_set_id", "disk_size_gb", "name",
               "write_accelerator_enabled"}

\* virtual_machine.go:84-164: the Go type the schema gives each field of the block
SchemaType(key) ==
  CASE key = "caching" -> "string"
    [] key = "storage_account_type" -> "string"
    [] key = "diff_disk_settings" -> "list"
    [] key = "disk_encryption_set_id" -> "string"
    [] key = "disk_size_gb" -> "int"
    [] key = "name" -> "string"
    [] key = "write_accelerator_enabled" -> "bool"

\* -------------------------------------------------- ExpandVirtualMachineOSDisk

\* the type assertions with diffDiskSettingsRaw[0] read whatever the list's length:
\* indexing an empty list panics
ExpandAsserts_IndexesEmptyList(input) ==
  /\ Len(input) > 0
  /\ Asserts(input[1], "map")
  /\ LET raw == input[1].v
     IN /\ Asserts(Index(raw, "caching"), "string")
        /\ Asserts(Index(raw, "storage_account_type"), "string")
        /\ Asserts(Index(raw, "write_accelerator_enabled"), "bool")
        /\ Asserts(Index(raw, "disk_size_gb"), "int")
        /\ Asserts(Index(raw, "diff_disk_settings"), "list")
        /\ Len(raw["diff_disk_settings"].v) > 0
        /\ Asserts(raw["diff_disk_settings"].v[1], "map")
        /\ Asserts(Index(raw["diff_disk_settings"].v[1].v, "option"), "string")
        /\ Asserts(Index(raw, "disk_encryption_set_id"), "string")
        /\ Asserts(Index(raw, "name"), "string")

\* the type assertions of virtual_machine.go:167-198, each of which panics when it fails
ExpandAsserts(input) ==
  /\ Len(input) > 0
  /\ Asserts(input[1], "map")
  /\ LET raw == input[1].v
     IN /\ Asserts(Index(raw, "caching"), "string")
        /\ Asserts(Index(raw, "storage_account_type"), "string")
        /\ Asserts(Index(raw, "write_accelerator_enabled"), "bool")
        /\ Asserts(Index(raw, "disk_size_gb"), "int")
        /\ Asserts(Index(raw, "diff_disk_settings"), "list")
        /\ Len(raw["diff_disk_settings"].v) > 0 =>
             /\ Asserts(raw["diff_disk_settings"].v[1], "map")
             /\ Asserts(Index(raw["diff_disk_settings"].v[1].v, "option"), "string")
        /\ Asserts(Index(raw, "disk_encryption_set_id"), "string")
        /\ Asserts(Index(raw, "name"), "string")

\* virtual_machine.go:181-183, with `>= 0` for `> 0`
ExpandDiskSizeGB_ZeroIsSet(raw) ==
  IF raw["disk_size_gb"].v >= 0 THEN Ptr(Int32(raw["disk_size_gb"].v)) ELSE Nil

\* virtual_machine.go:181-183
ExpandDiskSizeGB(raw) ==
  LET osDiskSize == raw["disk_size_gb"].v
  IN IF osDiskSize > 0 THEN Ptr(Int32(osDiskSize)) ELSE Nil

\* virtual_machine.go:185-190
ExpandDiffDiskSettings(raw) ==
  LET diffDiskSettingsRaw == raw["diff_disk_settings"].v
  IN IF Len(diffDiskSettingsRaw) > 0
       THEN Ptr([Option |-> diffDiskSettingsRaw[1].v["option"].v])
       ELSE Nil

\* virtual_machine.go:192-196, the encryption set left as the TODO of line 172
ExpandDiskEncryptionSet_Todo(raw) == Nil

\* virtual_machine.go:192-196
ExpandDiskEncryptionSet(raw) ==
  LET id == raw["disk_encryption_set_id"].v
  IN IF id # "" THEN Ptr([ID |-> Ptr(id)]) ELSE Nil

\* virtual_machine.go:198-200
ExpandName(raw) ==
  LET name == raw["name"].v
  IN IF name # "" THEN Ptr(name) ELSE Nil

\* virtual_machine.go:166-203
ExpandVirtualMachineOSDisk(input, osType) ==
  IF ~ExpandAsserts(input)
    THEN Panicked
    ELSE
      LET raw == input[1].v
      IN Returned(Ptr(
           [Caching |-> raw["caching"].v,
            ManagedDisk |-> Ptr(
              [StorageAccountType |-> raw["storage_account_type"].v,
               DiskEncryptionSet |-> ExpandDiskEncryptionSet(raw)]),
            WriteAcceleratorEnabled |-> Ptr(raw["write_accelerator_enabled"].v),
            CreateOption |-> "FromImage",
            OsType |-> osType,
            DiskSizeGB |-> ExpandDiskSizeGB(raw),
            DiffDiskSettings |-> ExpandDiffDiskSettings(raw),
            Name |-> ExpandName(raw)]))

\* ------------------------------------------------- FlattenVirtualMachineOSDisk

\* virtual_machine.go:210-215, the list never appended to
FlattenDiffDiskSettings_Dropped(disk) == <<>>

\* virtual_machine.go:210-215
FlattenDiffDiskSettings(disk) ==
  IF disk.DiffDiskSettings # Nil
    THEN <<MapV([option |-> StringV(disk.DiffDiskSettings[1].Option)])>>
    ELSE <<>>

\* virtual_machine.go:217-220
FlattenDiskSizeGb(disk) ==
  IF disk.DiskSizeGB # Nil /\ disk.DiskSizeGB[1] # 0
    THEN GoInt(disk.DiskSizeGB[1])
    ELSE 0

\* virtual_machine.go:222-225
FlattenName(disk) == IF disk.Name # Nil THEN disk.Name[1] ELSE ""

\* virtual_machine.go:228-231
FlattenStorageAccountType(disk) ==
  IF disk.ManagedDisk # Nil THEN disk.ManagedDisk[1].StorageAccountType ELSE ""

\* virtual_machine.go:227-235
FlattenDiskEncryptionSetId(disk) ==
  IF /\ disk.ManagedDisk # Nil
     /\ disk.ManagedDisk[1].DiskEncryptionSet # Nil
     /\ disk.ManagedDisk[1].DiskEncryptionSet[1].ID # Nil
    THEN disk.ManagedDisk[1].DiskEncryptionSet[1].ID[1]
    ELSE ""

\* virtual_machine.go:237-240, starting from true
FlattenWriteAcceleratorEnabled_DefaultTrue(disk) ==
  IF disk.WriteAcceleratorEnabled # Nil THEN disk.WriteAcceleratorEnabled[1] ELSE TRUE

\* virtual_machine.go:237-240
FlattenWriteAcceleratorEnabled(disk) ==
  IF disk.WriteAcceleratorEnabled # Nil THEN disk.WriteAcceleratorEnabled[1] ELSE FALSE

\* virtual_machine.go:205-252, the nil check taken on the managed disk as well
FlattenVirtualMachineOSDisk_NilManagedDisk(input) ==
  IF input = Nil \/ input[1].ManagedDisk = Nil
    THEN <<>>
    ELSE
      LET disk == input[1]
      IN <<MapV([caching |-> StringV(disk.Caching),
                 disk_size_gb |-> IntV(FlattenDiskSizeGb(disk)),
                 diff_disk_settings |-> ListV(FlattenDiffDiskSettings(disk)),
                 disk_encryption_set_id |-> StringV(FlattenDiskEncryptionSetId(disk)),
                 name |-> StringV(FlattenName(disk)),
                 storage_account_type |-> StringV(FlattenStorageAccountType(disk)),
                 write_accelerator_enabled |-> BoolV(FlattenWriteAcceleratorEnabled(disk))])>>

\* virtual_machine.go:205-252
FlattenVirtualMachineOSDisk(input) ==
  IF input = Nil
    THEN <<>>
    ELSE
      LET disk == input[1]
      IN <<MapV([caching |-> StringV(disk.Caching),
                 disk_size_gb |-> IntV(FlattenDiskSizeGb(disk)),
                 diff_disk_settings |-> ListV(FlattenDiffDiskSettings(disk)),
                 disk_encryption_set_id |-> StringV(FlattenDiskEncryptionSetId(disk)),
                 name |-> StringV(FlattenName(disk)),
                 storage_account_type |-> StringV(FlattenStorageAccountType(disk)),
                 write_accelerator_enabled |-> BoolV(FlattenWriteAcceleratorEnabled(disk))])>>

\* ------------------------------------- setVirtualMachineConnectionInformation

\* virtual_machine.go:254-272: d is the resource data, its connection info nil until set
setVirtualMachineConnectionInformation(d, input) ==
  IF input = Nil
    THEN d
    ELSE
      LET profile == input[1].OsProfile
          provisionerType ==
            IF profile # Nil /\ profile[1].WindowsConfiguration # Nil THEN "winrm" ELSE "ssh"
          ipAddress == "1.2.3.4"
      IN [d EXCEPT !.connInfo = Ptr([type |-> provisionerType, host |-> ipAddress])]

\* ------------------------------------------------------------------ calls

InitParseVirtualMachineID ==
  /\ fn = "ParseVirtualMachineID"
  /\ arg \in [input : IDStrings]

InitValidateVirtualMachineID ==
  /\ fn = "ValidateVirtualMachineID"
  /\ \E k \in Keys :
       \/ \E s \in IDStrings : arg = [i |-> StringV(s), k |-> k]
       \/ arg = [i |-> IntV(0), k |-> k]
       \/ arg = [i |-> BoolV(TRUE), k |-> k]
       \/ arg = [i |-> NilV, k |-> k]

\* list elements by name: two interface IDs and a value that is no string
NicElements == {"nic1", "nic2", "#int"}
NicValue(e) == IF e = "#int" THEN IntV(0) ELSE StringV(e)

InitExpandNetworkInterfaceIDs ==
  /\ fn = "expandVirtualMachineNetworkInterfaceIDs"
  /\ \E n \in 0..MaxNics : \E es \in [1..n -> NicElements] :
       arg = [input |-> [i \in 1..n |-> NicValue(es[i])]]

NetworkInterfaceReferences == {[ID |-> Nil], [ID |-> Ptr("nic1")], [ID |-> Ptr("nic2")]}

InitFlattenNetworkInterfaceIDs ==
  /\ fn = "flattenVirtualMachineNetworkInterfaceIDs"
  /\ \/ arg = [input |-> Nil]
     \/ \E n \in 0..MaxNics : \E refs \in [1..n -> NetworkInterfaceReferences] :
          arg = [input |-> Ptr(refs)]

OperatingSystemTypes == {"Linux", "Windows"}

\* bags whose seven fields have the schema's types; -1 is an int the schema's range excludes
OSDiskBags ==
  [caching : {StringV(c) : c \in CachingTypes},
   storage_account_type : {StringV(t) : t \in StorageAccountTypes},
   diff_disk_settings :
     {ListV(<<>>)} \cup {ListV(<<MapV([option |-> StringV(o)])>>) : o \in DiffDiskOptions},
   disk_encryption_set_id : {StringV(""), StringV("des1")},
   disk_size_gb : {IntV(n) : n \in {-1, MinDiskSizeGB, 1, MaxDiskSizeGB}},
   name : {StringV(""), StringV("osdisk")},
   write_accelerator_enabled : {BoolV(FALSE), BoolV(TRUE)}]

\* a value of another type than the schema gives the field
WrongValue(key) == IF SchemaType(key) = "string" THEN IntV(1) ELSE StringV("1")

InitExpandVirtualMachineOSDisk ==
  /\ fn = "ExpandVirtualMachineOSDisk"
  /\ \E osType \in OperatingSystemTypes :
       \/ arg = [input |-> <<>>, osType |-> osType]
       \/ arg = [input |-> <<StringV("osdisk")>>, osType |-> osType]
       \/ \E bag \in OSDiskBags :
            \/ arg = [input |-> <<MapV(bag)>>, osType |-> osType]
            \/ \E key \in OSDiskKeys :
                 arg = [input |-> <<MapV(Without(bag, key))>>, osType |-> osType]
            \/ \E key \in OSDiskKeys :
                 arg = [input |-> <<MapV([bag EXCEPT ![key] = WrongValue(key)])>>,
                        osType |-> osType]
            \/ \E element \in {"string", "empty", "int"} :
                 arg = [input |->
                          <<MapV([bag EXCEPT !["diff_disk_settings"] =
                                    ListV(<<CASE element = "string" -> StringV("Local")
                                              [] element = "empty" -> MapV(<<>>)
                                              [] element = "int" -> MapV([option |-> IntV(1)])>>)])>>,
                        osType |-> osType]

\* OS disk payloads as the API may return them, any optional pointer nil
OSDisks ==
  [Caching : {"", "ReadWrite"},
   ManagedDisk :
     {Nil} \cup {Ptr(m) : m \in
        [StorageAccountType : {"", "Premium_LRS"},
         DiskEncryptionSet : {Nil, Ptr([ID |-> Nil]), Ptr([ID |-> Ptr("")]),
                              Ptr([ID |-> Ptr("des1")])}]},
   WriteAcceleratorEnabled : {Nil, Ptr(FALSE), Ptr(TRUE)},
   CreateOption : {"FromImage"},
   OsType : OperatingSystemTypes,
   DiskSizeGB : {Nil, Ptr(0), Ptr(30)},
   DiffDiskSettings : {Nil, Ptr([Option |-> ""]), Ptr([Option |-> "Local"])},
   Name : {Nil, Ptr(""), Ptr("osdisk")}]

InitFlattenVirtualMachineOSDisk ==
  /\ fn = "FlattenVirtualMachineOSDisk"
  /\ \/ arg = [input |-> Nil]
     \/ \E disk \in OSDisks : arg = [input |-> Ptr(disk)]

ResourceDatas == {[connInfo |-> Nil],
                  [connInfo |-> Ptr([type |-> "ssh", host |-> "10.0.0.4"])]}

VirtualMachineProperties ==
  {Nil,
   Ptr([OsProfile |-> Nil]),
   Ptr([OsProfile |-> Ptr([WindowsConfiguration |-> Nil])]),
   Ptr([OsProfile |-> Ptr([WindowsConfiguration |-> Ptr([ProvisionVMAgent |-> TRUE])])])}

InitSetVirtualMachineConnectionInformation ==
  /\ fn = "setVirtualMachineConnectionInformation"
  /\ arg \in [d : ResourceDatas, input : VirtualMachineProperties]

Init ==
  /\ pc = "call"
  /\ ret = Pending
  /\ orig = Nil
  /\ \/ InitParseVirtualMachineID
     \/ InitValidateVirtualMachineID
     \/ InitExpandNetworkInterfaceIDs
     \/ InitFlattenNetworkInterfaceIDs
     \/ InitExpandVirtualMachineOSDisk
     \/ InitFlattenVirtualMachineOSDisk
     \/ InitSetVirtualMachineConnectionInformation

CallParseVirtualMachineID ==
  /\ pc = "call"
  /\ fn = "ParseVirtualMachineID"
  /\ \E strict \in SUBSET Helpers :
       ret' = Returned(ParseVirtualMachineID(arg.input, strict))
  /\ pc' = "done"
  /\ UNCHANGED <<fn, arg, orig>>

CallValidateVirtualMachineID ==
  /\ pc = "call"
  /\ fn = "ValidateVirtualMachineID"
  /\ \E strict \in SUBSET Helpers :
       ret' = Returned(ValidateVirtualMachineID(arg.i, arg.k, strict))
  /\ pc' = "done"
  /\ UNCHANGED <<fn, arg, orig>>

CallExpandNetworkInterfaceIDs ==
  /\ pc = "call"
  /\ fn = "expandVirtualMachineNetworkInterfaceIDs"
  /\ ret' = expandVirtualMachineNetworkInterfaceIDs(arg.input)
  /\ pc' = "done"
  /\ UNCHANGED <<fn, arg, orig>>

CallFlattenNetworkInterfaceIDs ==
  /\ pc = "call"
  /\ fn = "flattenVirtualMachineNetworkInterfaceIDs"
  /\ ret' = Returned(flattenVirtualMachineNetworkInterfaceIDs(arg.input))
  /\ pc' = "done"
  /\ UNCHANGED <<fn, arg, orig>>

CallExpandVirtualMachineOSDisk ==
  /\ pc = "call"
  /\ fn = "ExpandVirtualMachineOSDisk"
  /\ ret' = ExpandVirtualMachineOSDisk(arg.input, arg.osType)
  /\ pc' = "done"
  /\ UNCHANGED <<fn, arg, orig>>

\* the payload of an API response is flattened
CallFlattenVirtualMachineOSDisk ==
  /\ pc = "call"
  /\ fn = "FlattenVirtualMachineOSDisk"
  /\ ret' = Returned(FlattenVirtualMachineOSDisk(arg.input))
  /\ pc' = "done"
  /\ UNCHANGED <<fn, arg, orig>>

\* the payload an expand has returned is flattened; orig keeps the expand's arguments
CallFlattenExpandedOSDisk ==
  /\ pc = "done"
  /\ fn = "ExpandVirtualMachineOSDisk"
  /\ ~ret.panic
  /\ fn' = "FlattenVirtualMachineOSDisk"
  /\ orig' = Ptr(arg)
  /\ arg' = [input |-> ret.val]
  /\ ret' = Returned(FlattenVirtualMachineOSDisk(ret.val))
  /\ pc' = "done"

CallSetVirtualMachineConnectionInformation ==
  /\ pc = "call"
  /\ fn = "setVirtualMachineConnectionInformation"
  /\ ret' = Returned(setVirtualMachineConnectionInformation(arg.d, arg.input))
  /\ pc' = "done"
  /\ UNCHANGED <<fn, arg, orig>>

Next ==
  \/ CallParseVirtualMachineID
  \/ CallValidateVirtualMachineID
  \/ CallExpandNetworkInterfaceIDs
  \/ CallFlattenNetworkInterfaceIDs
  \/ CallExpandVirtualMachineOSDisk
  \/ CallFlattenVirtualMachineOSDisk
  \/ CallFlattenExpandedOSDisk
  \/ CallSetVirtualMachineConnectionInformation

Spec == Init /\ [][Next]_vars

\* ------------------------------------------------- claims: ID parse/validate

Parsed == pc = "done" /\ fn = "ParseVirtualMachineID"
Validated == pc = "done" /\ fn = "ValidateVirtualMachineID"

\* the key positions of the path that hold `key`
SegmentsNamed(s, key) ==
  {i \in KeyIndexes(Components(s)) : Components(s)[i] = key /\ i < Len(Components(s))}

HasEmptySegment(s) == \E i \in 1..Len(Components(s)) : Components(s)[i] = ""

Rejected(r) == r.err # Nil /\ r.id = Nil

\* C3: ParseVirtualMachineID returns a non-nil error and a nil ID for every path
\* without a `virtualMachines` segment, also when the path names a resource group
\* and is otherwise well formed.
C3_MissingSegmentRejected ==
  (Parsed /\ SegmentsNamed(arg.input, "virtualMachines") = {})
    => ~ret.panic /\ Rejected(ret.val)

\* "/resourceGroups/vm1" was parsed and rejected by PopSegment
C3_Witness ==
  /\ Parsed
  /\ arg.input = <<"", "resourceGroups", "vm1">>
  /\ ret.val.err # Nil
  /\ ret.val.err[1].msg = "ID was missing the element"

\* C4: ParseVirtualMachineID rejects every path that contains an empty segment,
\* whether or not the path has a `virtualMachines` segment.
C4_EmptySegmentRejected ==
  (Parsed /\ HasEmptySegment(arg.input)) => ~ret.panic /\ Rejected(ret.val)

\* a path with a virtualMachines segment and an empty segment elsewhere was rejected
C4_Witness ==
  /\ Parsed
  /\ arg.input = <<"", "resourceGroups", "vm1", "virtualMachines", "vm1", "", "vm1">>
  /\ Rejected(ret.val)

\* C10: ParseVirtualMachineID returns exactly one of an ID and an error; on success
\* Name is the non-empty value of a `virtualMachines` segment of the path,
\* ResourceGroup the value of a `resourceGroups` segment, and the path has no
\* empty segment.
C10_ParseResult ==
  Parsed =>
    /\ ~ret.panic
    /\ (ret.val.id = Nil) # (ret.val.err = Nil)
    /\ ret.val.id # Nil =>
         LET c == Components(arg.input)
             id == ret.val.id[1]
         IN /\ id.Name # ""
            /\ \E i \in SegmentsNamed(arg.input, "virtualMachines") : c[i + 1] = id.Name
            /\ \E i \in SegmentsNamed(arg.input, "resourceGroups") : c[i + 1] = id.ResourceGroup
            /\ ~HasEmptySegment(arg.input)

\* "/resourceGroups/virtualMachines/virtualMachines/vm1" parsed into group and name
C10_Witness ==
  /\ Parsed
  /\ ret.val.id # Nil
  /\ ret.val.id[1].Name = "vm1"
  /\ ret.val.id[1].ResourceGroup = "virtualMachines"

\* C8: ValidateVirtualMachineID never aborts and returns no warnings; a non-string
\* value gives exactly one error naming the key, a string the parser rejects gives
\* exactly one error naming the key and wrapping the parser's error, a string the
\* parser accepts gives no error.
C8_ValidateErrors ==
  Validated =>
    LET errors == ret.val.errors
    IN /\ ~ret.panic
       /\ ret.val.warnings = <<>>
       /\ Len(errors) <= 1
       /\ arg.i.t # "string" =>
            /\ Len(errors) = 1
            /\ errors[1].msg = "expected type to be string"
            /\ errors[1].key = arg.k
       /\ arg.i.t = "string" =>
            \E strict \in SUBSET Helpers :
              LET r == ParseVirtualMachineID(arg.i.v, strict)
              IN IF r.err = Nil
                   THEN errors = <<>>
                   ELSE /\ Len(errors) = 1
                        /\ errors[1].msg = "Can not parse as a resource id"
                        /\ errors[1].key = arg.k
                        /\ errors[1].cause = r.err
       /\ (arg.i.t = "string" /\ Rejected(ParseVirtualMachineID(arg.i.v, {})))
            => Len(errors) = 1

\* a string without a virtualMachines segment produced one wrapped error
C8_Witness ==
  /\ Validated
  /\ arg.i.t = "string"
  /\ arg.i.v = <<"", "resourceGroups", "vm1">>
  /\ Len(ret.val.errors) = 1
  /\ ret.val.errors[1].cause # Nil

\* --------------------------------------------------------- claims: OS disk

Expanded == pc = "done" /\ fn = "ExpandVirtualMachineOSDisk" /\ ~ret.panic
Flattened == pc = "done" /\ fn = "FlattenVirtualMachineOSDisk"
\* an expand of a bag followed by the flatten of its payload
RoundTrip == Flattened /\ orig # Nil

\* the bag of an expand's arguments
BagOf(a) == a.input[1].v

\* the schema's range for disk_size_gb
ValidBag(bag) ==
  bag["disk_size_gb"].v >= MinDiskSizeGB /\ bag["disk_size_gb"].v <= MaxDiskSizeGB

\* C1: for a valid bag, flatten(expand(bag)) is one block whose seven fields have
\* the bag's values.
C1_RoundTrip ==
  (RoundTrip /\ ValidBag(BagOf(orig[1]))) =>
    /\ Len(ret.val) = 1
    /\ DOMAIN ret.val[1].v = OSDiskKeys
    /\ \A key \in OSDiskKeys : ret.val[1].v[key] = BagOf(orig[1])[key]

\* a bag with every optional field set went through expand and flatten
C1_Witness ==
  /\ RoundTrip
  /\ BagOf(orig[1])["disk_size_gb"].v = MaxDiskSizeGB
  /\ BagOf(orig[1])["disk_encryption_set_id"].v = "des1"
  /\ BagOf(orig[1])["name"].v = "osdisk"
  /\ BagOf(orig[1])["write_accelerator_enabled"].v = TRUE
  /\ Len(BagOf(orig[1])["diff_disk_settings"].v) = 1
  /\ ret.val[1].v["disk_encryption_set_id"].v = "des1"

\* C2 as stated: FlattenVirtualMachineOSDisk returns exactly one element for every
\* input, the nil payload included.
C2_AlwaysOneElement == Flattened => Len(ret.val) = 1

\* C2 amended: FlattenVirtualMachineOSDisk returns the empty list for the nil payload
\* and exactly one element, a block of the seven fields, for every other payload.
C2_OneElementUnlessNil ==
  Flattened =>
    /\ arg.input = Nil => ret.val = <<>>
    /\ arg.input # Nil =>
         /\ Len(ret.val) = 1
         /\ ret.val[1].t = "map"
         /\ DOMAIN ret.val[1].v = OSDiskKeys

\* a payload whose optional pointers are all nil was flattened to one block
C2_Witness ==
  /\ Flattened
  /\ arg.input # Nil
  /\ arg.input[1].ManagedDisk = Nil
  /\ arg.input[1].WriteAcceleratorEnabled = Nil
  /\ arg.input[1].DiskSizeGB = Nil
  /\ arg.input[1].DiffDiskSettings = Nil
  /\ arg.input[1].Name = Nil
  /\ Len(ret.val) = 1

\* C5: expand leaves DiskSizeGB nil for disk_size_gb 0 and sets it, to the same
\* value, exactly when disk_size_gb > 0; flatten gives disk_size_gb 0 for a nil
\* DiskSizeGB and for one that points to 0.
C5_DiskSize ==
  /\ Expanded =>
       LET size == BagOf(arg)["disk_size_gb"].v
           disk == ret.val[1]
       IN /\ size = 0 => disk.DiskSizeGB = Nil
          /\ size > 0 => disk.DiskSizeGB = Ptr(size)
          /\ disk.DiskSizeGB # Nil => size > 0
  /\ (Flattened /\ arg.input # Nil) =>
       LET disk == arg.input[1]
       IN (disk.DiskSizeGB = Nil \/ disk.DiskSizeGB = Ptr(0))
            => ret.val[1].v["disk_size_gb"].v = 0

\* a bag with disk_size_gb 0 expanded to a nil DiskSizeGB, which flattened to 0
C5_Witness ==
  /\ RoundTrip
  /\ BagOf(orig[1])["disk_size_gb"].v = 0
  /\ arg.input[1].DiskSizeGB = Nil
  /\ ret.val[1].v["disk_size_gb"].v = 0

\* C6: a non-empty diff_disk_settings expands to a non-nil DiffDiskSettings with the
\* bag's option, which flattens to a list of one element with that option; an empty
\* diff_disk_settings expands to nil, which flattens to the empty list.
C6_DiffDisk ==
  /\ Expanded =>
       LET settings == BagOf(arg)["diff_disk_settings"].v
           disk == ret.val[1]
       IN IF Len(settings) > 0
            THEN /\ disk.DiffDiskSettings # Nil
                 /\ disk.DiffDiskSettings[1].Option = settings[1].v["option"].v
            ELSE disk.DiffDiskSettings = Nil
  /\ RoundTrip =>
       LET settings == BagOf(orig[1])["diff_disk_settings"].v
           flat == ret.val[1].v["diff_disk_settings"].v
       IN IF Len(settings) > 0
            THEN /\ Len(flat) = 1
                 /\ flat[1].v["option"].v = settings[1].v["option"].v
            ELSE flat = <<>>
  /\ (Flattened /\ arg.input # Nil) =>
       (arg.input[1].DiffDiskSettings = Nil) = (ret.val[1].v["diff_disk_settings"].v = <<>>)

\* a bag with the Local option came back from expand and flatten with that option
C6_Witness ==
  /\ RoundTrip
  /\ Len(BagOf(orig[1])["diff_disk_settings"].v) = 1
  /\ arg.input[1].DiffDiskSettings = Ptr([Option |-> "Local"])
  /\ Len(ret.val[1].v["diff_disk_settings"].v) = 1

\* the payload with a pointer to the zero value for each absent pointer among
\* WriteAcceleratorEnabled, Name, ManagedDisk, DiskEncryptionSet and its ID
ZeroFilled(disk) ==
  LET managed == IF disk.ManagedDisk = Nil
                   THEN [StorageAccountType |-> "", DiskEncryptionSet |-> Nil]
                   ELSE disk.ManagedDisk[1]
      set == IF managed.DiskEncryptionSet = Nil THEN [ID |-> Nil]
                                                ELSE managed.DiskEncryptionSet[1]
      id == IF set.ID = Nil THEN "" ELSE set.ID[1]
  IN [disk EXCEPT
        !.WriteAcceleratorEnabled = IF @ = Nil THEN Ptr(FALSE) ELSE @,
        !.Name = IF @ = Nil THEN Ptr("") ELSE @,
        !.ManagedDisk = Ptr([StorageAccountType |-> managed.StorageAccountType,
                             DiskEncryptionSet |-> Ptr([ID |-> Ptr(id)])])]

\* C7: for a non-nil payload flatten gives write_accelerator_enabled false for a nil
\* WriteAcceleratorEnabled, name "" for a nil Name, storage_account_type and
\* disk_encryption_set_id "" for a nil ManagedDisk, disk_encryption_set_id "" for a
\* nil DiskEncryptionSet or ID; the block equals the one flattened from the payload
\* with pointers to zero values in place of these nil pointers.
C7_ZeroValues ==
  (Flattened /\ arg.input # Nil) =>
    LET disk == arg.input[1]
        flat == ret.val[1].v
    IN /\ disk.WriteAcceleratorEnabled = Nil => flat["write_accelerator_enabled"].v = FALSE
       /\ disk.Name = Nil => flat["name"].v = ""
       /\ disk.ManagedDisk = Nil =>
            /\ flat["storage_account_type"].v = ""
            /\ flat["disk_encryption_set_id"].v = ""
       /\ (disk.ManagedDisk # Nil /\ disk.ManagedDisk[1].DiskEncryptionSet = Nil)
            => flat["disk_encryption_set_id"].v = ""
       /\ (/\ disk.ManagedDisk # Nil
           /\ disk.ManagedDisk[1].DiskEncryptionSet # Nil
           /\ disk.ManagedDisk[1].DiskEncryptionSet[1].ID = Nil)
            => flat["disk_encryption_set_id"].v = ""
       /\ ret.val = FlattenVirtualMachineOSDisk(Ptr(ZeroFilled(disk)))

\* a payload with a nil WriteAcceleratorEnabled and a nil ManagedDisk was flattened
C7_Witness ==
  /\ Flattened
  /\ arg.input # Nil
  /\ arg.input[1].WriteAcceleratorEnabled = Nil
  /\ arg.input[1].ManagedDisk = Nil
  /\ arg.input[1].Name = Nil
  /\ ret.val[1].v["write_accelerator_enabled"].v = FALSE

\* --------------------------------------------------------- claims: totality

\* the list holds a block whose fields are present with the schema's types
SchemaConformant(input) ==
  /\ Len(input) > 0
  /\ input[1].t = "map"
  /\ \A key \in OSDiskKeys :
       /\ key \in DOMAIN input[1].v
       /\ input[1].v[key].t = SchemaType(key)
  /\ \A i \in 1..Len(input[1].v["diff_disk_settings"].v) :
       LET element == input[1].v["diff_disk_settings"].v[i]
       IN /\ element.t = "map"
          /\ "option" \in DOMAIN element.v
          /\ element.v["option"].t = "string"

\* C9 as stated: every mapping function returns a result or an error value for
\* every input of its declared type and never aborts.
C9_NeverAborts == pc = "done" => ~ret.panic

\* C9 amended: every call ends, in a return or in a panic, and it panics exactly
\* when ExpandVirtualMachineOSDisk is given a list that is empty or whose block
\* has a missing or wrongly typed field, or expandVirtualMachineNetworkInterfaceIDs
\* is given an element that is no string.
C9_AbortsOnlyOffSchema ==
  /\ pc = "call" => ENABLED Next
  /\ pc = "done" =>
       (ret.panic <=>
          \/ /\ fn = "ExpandVirtualMachineOSDisk"
             /\ ~SchemaConformant(arg.input)
          \/ /\ fn = "expandVirtualMachineNetworkInterfaceIDs"
             /\ \E i \in 1..Len(arg.input) : arg.input[i].t # "string")

\* a schema-conformant bag with an empty diff_disk_settings was expanded and returned
C9_Witness ==
  /\ Expanded
  /\ SchemaConformant(arg.input)
  /\ BagOf(arg)["diff_disk_settings"].v = <<>>
  /\ ret.val # Nil

====
